---- MODULE Spec2Model ----
(***************************************************************************)
(* Diffusive Nested Sampling: Sampler<ModelType> of DNest4                 *)
(* (src/code/SamplerImpl.h).  The sampler state is the set of Sampler      *)
(* fields; worker threads run run_thread, the supervisor runs run().       *)
(*                                                                         *)
(* Numbers.  Doubles are modelled exactly where the code only compares or  *)
(* copies them.  A LikelihoodType is a pair <<value, tiebreaker>> of       *)
(* integers.  log_X is kept as the exact rational X = exp(log_X), a pair   *)
(* <<num, den>>, so "log_X non-increasing" is "X non-increasing".  A       *)
(* uniform draw rand() is a grid point u in 0..RandGrid-1 standing for     *)
(* u/RandGrid; exp(k) for an integer k is the rational (ExpNum/ExpDen)^k.  *)
(***************************************************************************)
EXTENDS Integers, Sequences, FiniteSets, TLC

\* ------------------------------------------------------------------------
\* Bounds of the model
MaxThreads == 2
MaxSeed == 5
MaxSaves == 2
MaxSteps == 12
MaxDraws == 40
UIntBits == 4

\* ------------------------------------------------------------------------
\* Options and constructor arguments (a fixed configuration)
num_particles == 2
thread_steps == 3
new_level_interval == 1
save_interval == 6
ShallowLevels == 3
DeepLevels == 4
beta == 1
lambda == 1
SqrtLambda == 1
compression == 2
work_ratio == 1
save_to_disk == TRUE
adaptive == FALSE

\* options.max_num_levels is chosen by the caller before the run
VARIABLE max_num_levels

\* ------------------------------------------------------------------------
\* Numeric grids
RandGrid == 4
TieGrid == 4
MaxX == 4
ExpNum == 3
ExpDen == 1
MinusMax == -1

RECURSIVE Pow(_, _)
Pow(b, k) == IF k = 0 THEN 1 ELSE b * Pow(b, k - 1)

\* exp(k) for an integer k, as a rational <<num, den>>
Exp(k) == IF k >= 0 THEN <<Pow(ExpNum, k), Pow(ExpDen, k)>>
                    ELSE <<Pow(ExpDen, -k), Pow(ExpNum, -k)>>

RECURSIVE Gcd(_, _)
Gcd(a, b) == IF b = 0 THEN a ELSE Gcd(b, a % b)

\* a rational in lowest terms
Norm(p) == LET g == Gcd(p[1], p[2]) IN IF g = 0 THEN p ELSE <<p[1] \div g, p[2] \div g>>

\* DNest4::mod: the non-negative remainder
Mod(y, x) == y % x

\* ------------------------------------------------------------------------
\* RNG: one generator per thread, a serialisable state; every draw advances
\* the state and is a function of it.
RngMod == 4096
RngA == 1229
RngC == 1

RngNext(r) == (RngA * r + RngC) % RngMod
RngOut(r, n) == (r * n) \div RngMod

set_seed(s) == (s * 677 + 3337) % RngMod

\* rand(): u in 0..RandGrid-1, standing for u/RandGrid in [0,1)
rand(r) == [v |-> RngOut(RngNext(r), RandGrid), rng |-> RngNext(r)]

\* rand_int(n): uniform in 0..n-1
rand_int(r, n) == [v |-> RngOut(RngNext(r), n), rng |-> RngNext(r)]

\* randn(): a standard normal, on the grid {-1, 0, 0, 1}
randn(r) == [v |-> <<-1, 0, 0, 1>>[RngOut(RngNext(r), 4) + 1], rng |-> RngNext(r)]

\* randh(): heavy-tailed step, never zero; on the grid 1..TieGrid-1
randh(r) == [v |-> 1 + RngOut(RngNext(r), TieGrid - 1), rng |-> RngNext(r)]

\* pow(10., 2.*u) truncated to an integer, for u on the grid of rand()
Pow10(u) == <<1, 3, 10, 31>>[u + 1]

\* ------------------------------------------------------------------------
\* LikelihoodType: <<value, tiebreaker>> with the lexicographic order
LikelihoodType(v, t) == <<v, t>>
DefaultLikelihood == <<MinusMax, 0>>

Less(a, b) == a[1] < b[1] \/ (a[1] = b[1] /\ a[2] < b[2])

\* LikelihoodType::perturb: tiebreaker <- wrap(tiebreaker + randh(), 0, 1)
LikelihoodPerturb(l, r) ==
    LET h == randh(r)
    IN  [l |-> <<l[1], (l[2] + h.v) % TieGrid>>, rng |-> h.rng]

\* ------------------------------------------------------------------------
\* Model: the particle is an integer x in 0..MaxX; log_likelihood(x) = x.
\* perturb stages x + step (wrapped into 0..MaxX) and returns log_H = 0.
log_likelihood(x) == x

from_prior(i) == i % (MaxX + 1)

ModelPerturb(x, r) ==
    LET d == rand_int(r, 3)
    IN  [prop |-> Mod(x + d.v - 1, MaxX + 1), log_H |-> 0, rng |-> d.rng]

\* ------------------------------------------------------------------------
\* Level: threshold, log_X (as X = <<num, den>>) and the four counters
Level(l) == [log_likelihood |-> l, log_X |-> <<1, 1>>,
             accepts |-> 0, tries |-> 0, visits |-> 0, exceeds |-> 0]

Back(s) == s[Len(s)]

\* Regularisation new_level_interval*sqrt(lambda)
Reg == new_level_interval * SqrtLambda

\* Level::recalculate_log_X:
\*   X[0] = 1;  X[k+1] = X[k] * (exceeds[k] + R/compression)/(visits[k] + R)
RECURSIVE RecalcFrom(_, _)
RecalcFrom(L, k) ==
    IF k > Len(L) THEN L
    ELSE LET p == L[k - 1]
             x == Norm(<<p.log_X[1] * (compression * p.exceeds + Reg),
                         p.log_X[2] * (compression * (p.visits + Reg))>>)
         IN  RecalcFrom([L EXCEPT ![k].log_X = x], k + 1)

recalculate_log_X(L) == RecalcFrom([L EXCEPT ![1].log_X = <<1, 1>>], 2)

RECURSIVE MaxVisits(_, _)
MaxVisits(L, k) ==
    IF k = 0 THEN 0
    ELSE LET m == MaxVisits(L, k - 1)
         IN  IF L[k].visits > m THEN L[k].visits ELSE m

\* round(c*R/m), half up
Scale(c, R, m) == (2 * c * R + m) \div (2 * m)

\* Level::renormalise_visits: scale (visits, exceeds) of every level so that
\* the most visited level has R visits
renormalise_visits(L, R) ==
    LET m == MaxVisits(L, Len(L))
    IN  IF m = 0 THEN L
        ELSE [k \in 1..Len(L) |->
                [L[k] EXCEPT !.visits = Scale(L[k].visits, R, m),
                             !.exceeds = Scale(L[k].exceeds, R, m)]]

\* ------------------------------------------------------------------------
\* The test with > in place of >=
enough_levels_strict(l) == Len(l) > max_num_levels

\* Sampler::enough_levels, for max_num_levels > 0 (the automatic mode needs
\* compression = e and is refused by the constructor otherwise)
enough_levels(l) == Len(l) >= max_num_levels

\* Sampler::log_push as the integer numerator d of d/(work_ratio*lambda);
\* it reads the shared levels, not the thread's copy
log_push(levels, which_level) ==
    IF enough_levels(levels) THEN 0
    ELSE which_level - (Len(levels) - 1)

\* rand() <= p for u on the grid and a rational p = <<num, den>>
RandLeq(u, p) == u * p[2] <= RandGrid * p[1]

RatMul(a, b) == Norm(<<a[1] * b[1], a[2] * b[2]>>)

\* min(p, 1): the clamp of log_H and log_A at 0
Clamp(p) == IF p[1] > p[2] THEN <<1, 1>> ELSE p

\* ------------------------------------------------------------------------
\* Sampler::update_particle.  S is the record of the Sampler's fields.

\* The walk of lines 263-273 counting a visit only where the particle does
\* not exceed the next level
RECURSIVE CountVisitsExceedOnly(_, _, _)
CountVisitsExceedOnly(L, current_level, logl) ==
    IF current_level < Len(L) - 1
    THEN IF Less(L[current_level + 2].log_likelihood, logl)
         THEN CountVisitsExceedOnly([L EXCEPT ![current_level + 1].exceeds = @ + 1],
                                    current_level + 1, logl)
         ELSE [L EXCEPT ![current_level + 1].visits = @ + 1]
    ELSE L

\* lines 263-273: count visits and exceeds
RECURSIVE CountVisits(_, _, _)
CountVisits(L, current_level, logl) ==
    IF current_level < Len(L) - 1
    THEN LET L1 == [L EXCEPT ![current_level + 1].visits = @ + 1]
         IN  IF Less(L[current_level + 2].log_likelihood, logl)
             THEN CountVisits([L1 EXCEPT ![current_level + 1].exceeds = @ + 1],
                              current_level + 1, logl)
             ELSE L1
    ELSE L

update_particle(S, thread, which) ==
    LET _levels == S.copies_of_levels[thread]
        la == S.level_assignments[which]
        logl == S.log_likelihoods[which]
        pr == ModelPerturb(S.particles[which], S.rngs[thread])
        u == rand(pr.rng)
        passed == RandLeq(u.v, Clamp(Exp(pr.log_H)))
        lp == LikelihoodPerturb(LikelihoodType(log_likelihood(pr.prop), logl[2]), u.rng)
        accept == passed /\ Less(_levels[la + 1].log_likelihood, lp.l)
        newl == IF accept THEN lp.l ELSE logl
        L1 == IF accept THEN [_levels EXCEPT ![la + 1].accepts = @ + 1] ELSE _levels
        L2 == [L1 EXCEPT ![la + 1].tries = @ + 1]
    IN  [S EXCEPT !.particles[which] = IF accept THEN pr.prop ELSE @,
                  !.log_likelihoods[which] = newl,
                  !.copies_of_levels[thread] = CountVisits(L2, la, newl),
                  !.rngs[thread] = IF passed THEN lp.rng ELSE u.rng]

\* exp(log_A) of update_level_assignment, before the clamp
AcceptanceRatio(S, _levels, la, proposal) ==
    LET Xc == _levels[la + 1].log_X
        Xp == _levels[proposal + 1].log_X
        r1 == Norm(<<Xc[1] * Xp[2], Xc[2] * Xp[1]>>)
        r2 == Exp(log_push(S.levels, proposal) - log_push(S.levels, la))
        r3 == IF Len(_levels) = max_num_levels
              THEN Norm(<<Pow(_levels[la + 1].tries + 1, beta),
                          Pow(_levels[proposal + 1].tries + 1, beta)>>)
              ELSE <<1, 1>>
    IN  RatMul(RatMul(r1, r2), r3)

\* A level proposal accepted whatever the threshold of the proposed level
AcceptLevelNoThreshold(u, ratio, threshold, logl) == RandLeq(u, Clamp(ratio))

\* line 317: rng.rand() <= exp(log_A) && _levels[proposal] < log_likelihoods[which]
AcceptLevel(u, ratio, threshold, logl) ==
    RandLeq(u, Clamp(ratio)) /\ Less(threshold, logl)

\* The proposal left as drawn, not wrapped into the range of the levels
LevelProposalUnwrapped(S, thread, which) ==
    LET la == S.level_assignments[which]
        u1 == rand(S.rngs[thread])
        n1 == randn(u1.rng)
        prop0 == la + Pow10(u1.v) * n1.v
        u2 == rand(n1.rng)
        prop1 == IF prop0 = la
                 THEN (IF 2 * u2.v < RandGrid THEN prop0 - 1 ELSE prop0 + 1)
                 ELSE prop0
    IN  [raw |-> prop1, proposal |-> prop1,
         rng |-> IF prop0 = la THEN u2.rng ELSE n1.rng]

\* update_level_assignment, lines 286-299: the proposal as drawn (raw) and
\* wrapped into the range of the thread's levels
LevelProposal(S, thread, which) ==
    LET _levels == S.copies_of_levels[thread]
        la == S.level_assignments[which]
        u1 == rand(S.rngs[thread])
        n1 == randn(u1.rng)
        prop0 == la + Pow10(u1.v) * n1.v
        u2 == rand(n1.rng)
        prop1 == IF prop0 = la
                 THEN (IF 2 * u2.v < RandGrid THEN prop0 - 1 ELSE prop0 + 1)
                 ELSE prop0
    IN  [raw |-> prop1, proposal |-> Mod(prop1, Len(_levels)),
         rng |-> IF prop0 = la THEN u2.rng ELSE n1.rng]

\* Sampler::update_level_assignment
update_level_assignment(S, thread, which) ==
    LET _levels == S.copies_of_levels[thread]
        la == S.level_assignments[which]
        p == LevelProposal(S, thread, which)
        proposal == p.proposal
        u3 == rand(p.rng)
        accept == AcceptLevel(u3.v, AcceptanceRatio(S, _levels, la, proposal),
                              _levels[proposal + 1].log_likelihood,
                              S.log_likelihoods[which])
    IN  [S EXCEPT !.level_assignments[which] = IF accept THEN proposal ELSE @,
                  !.rngs[thread] = u3.rng]

\* Every thread starting at slot 0
start_index_shared(thread) == 0

\* mcmc_thread, line 198: the first particle belonging to the thread
start_index(thread) == thread * num_particles

\* The sampler as update_level_assignment finds it in the next iteration of
\* the burst of the thread, and the slot it is called for
AtLevelUpdate(S, thread) ==
    LET w == rand_int(S.rngs[thread], num_particles)
        which == start_index(thread) + w.v
        u == rand(w.rng)
        S0 == [S EXCEPT !.rngs[thread] = u.rng]
    IN  [S |-> IF 2 * u.v <= RandGrid THEN update_particle(S0, thread, which) ELSE S0,
         which |-> which]

\* One iteration of the loop of Sampler::mcmc_thread
mcmc_step(S, thread) ==
    LET w == rand_int(S.rngs[thread], num_particles)
        which == start_index(thread) + w.v
        u == rand(w.rng)
        S0 == [S EXCEPT !.rngs[thread] = u.rng]
        S1 == IF 2 * u.v <= RandGrid
              THEN update_level_assignment(update_particle(S0, thread, which), thread, which)
              ELSE update_particle(update_level_assignment(S0, thread, which), thread, which)
        _levels == S1.copies_of_levels[thread]
    IN  IF ~enough_levels(_levels)
           /\ Less(Back(_levels).log_likelihood, S1.log_likelihoods[which])
        THEN [S1 EXCEPT !.above[thread] = Append(@, S1.log_likelihoods[which])]
        ELSE S1

\* ------------------------------------------------------------------------
\* Sampler::kill_lagging_particles
Slots(S) == 0..(S.num_threads * num_particles - 1)
Threads(S) == 0..(S.num_threads - 1)

\* kill_probability = pow(1 - 1/(1 + exp(-log_push - 4)), 3)
KillProbability(lp) ==
    LET e == Exp(-lp - 4)
    IN  <<Pow(e[1], 3), Pow(e[1] + e[2], 3)>>

\* The first loop (lines 657-668): flag particles i..n-1, drawing from rngs[0]
RECURSIVE FlagParticles(_, _, _, _)
FlagParticles(S, i, good, r) ==
    IF i = S.num_threads * num_particles THEN [good |-> good, rng |-> r]
    ELSE LET u == rand(r)
             bad == RandLeq(u.v, KillProbability(log_push(S.levels, S.level_assignments[i])))
         IN  FlagParticles(S, i + 1, IF bad THEN [good EXCEPT ![i] = FALSE] ELSE good, u.rng)

RECURSIVE MaxLogPush(_, _)
MaxLogPush(S, i) ==
    LET lp == log_push(S.levels, S.level_assignments[i])
    IN  IF i = 0 THEN lp
        ELSE LET m == MaxLogPush(S, i - 1) IN IF lp > m THEN lp ELSE m

\* The do-while without the test of good[i_copy]
RECURSIVE ChooseCopyAny(_, _, _, _, _)
ChooseCopyAny(S, good, max_log_push, r, fuel) ==
    IF fuel = 0 THEN [ok |-> FALSE, i_copy |-> 0, rng |-> r]
    ELSE LET c == rand_int(r, S.num_threads * num_particles)
             u == rand(c.rng)
             p == Exp(log_push(S.levels, S.level_assignments[c.v]) - max_log_push)
         IN  IF u.v * p[2] >= RandGrid * p[1]
             THEN ChooseCopyAny(S, good, max_log_push, u.rng, fuel - 1)
             ELSE [ok |-> TRUE, i_copy |-> c.v, rng |-> u.rng]

\* The do-while of lines 680-684; ok = FALSE when no draw within MaxDraws
\* is accepted (the loop is still running)
RECURSIVE ChooseCopy(_, _, _, _, _)
ChooseCopy(S, good, max_log_push, r, fuel) ==
    IF fuel = 0 THEN [ok |-> FALSE, i_copy |-> 0, rng |-> r]
    ELSE LET c == rand_int(r, S.num_threads * num_particles)
             u == rand(c.rng)
             p == Exp(log_push(S.levels, S.level_assignments[c.v]) - max_log_push)
         IN  IF ~good[c.v] THEN ChooseCopy(S, good, max_log_push, c.rng, fuel - 1)
             ELSE IF u.v * p[2] >= RandGrid * p[1]
                  THEN ChooseCopy(S, good, max_log_push, u.rng, fuel - 1)
                  ELSE [ok |-> TRUE, i_copy |-> c.v, rng |-> u.rng]

\* The second loop (lines 673-696), from particle i on
RECURSIVE ReplaceBad(_, _, _, _)
ReplaceBad(S, i, good, max_log_push) ==
    IF i = S.num_threads * num_particles THEN S
    ELSE IF good[i] THEN ReplaceBad(S, i + 1, good, max_log_push)
    ELSE LET c == ChooseCopy(S, good, max_log_push, S.rngs[0], MaxDraws)
             S1 == [S EXCEPT !.particles[i] = S.particles[c.i_copy],
                             !.log_likelihoods[i] = S.log_likelihoods[c.i_copy],
                             !.level_assignments[i] = S.level_assignments[c.i_copy],
                             !.deletions = @ + 1,
                             !.rngs[0] = c.rng]
         IN  IF c.ok THEN ReplaceBad(S1, i + 1, good, max_log_push)
             ELSE [S EXCEPT !.hung = TRUE]

kill_lagging_particles(S) ==
    LET f == FlagParticles(S, 0, [i \in Slots(S) |-> TRUE], S.rngs[0])
        num_bad == Cardinality({i \in Slots(S) : ~f.good[i]})
        S1 == [S EXCEPT !.rngs[0] = f.rng]
    IN  IF num_bad < S.num_threads * num_particles
        THEN ReplaceBad(S1, 0, f.good, MaxLogPush(S, S.num_threads * num_particles - 1))
        ELSE S1

\* ------------------------------------------------------------------------
\* The checkpoint: Sampler::print writes a stream of numbers, Sampler::read
\* parses it back field by field.
RECURSIVE Flat(_)
Flat(ss) == IF ss = <<>> THEN <<>> ELSE Head(ss) \o Flat(Tail(ss))

\* a vector indexed 0..n-1 as the sequence of its elements
Vec(f, n) == [k \in 1..n |-> f[k - 1]]

NumOptionTokens == 8
PrintOptions(S) ==
    <<num_particles, new_level_interval, save_interval, thread_steps,
      max_num_levels, lambda, beta, S.max_num_saves>>

PrintLevel(l) ==
    <<l.log_X[1], l.log_X[2], l.log_likelihood[1], l.log_likelihood[2],
      l.accepts, l.tries, l.exceeds, l.visits>>

ReadLevel(t, p) ==
    [log_X |-> <<t[p + 1], t[p + 2]>>, log_likelihood |-> <<t[p + 3], t[p + 4]>>,
     accepts |-> t[p + 5], tries |-> t[p + 6], exceeds |-> t[p + 7], visits |-> t[p + 8]]

\* Sampler::print
print(S) ==
    LET n == S.num_threads * num_particles
    IN  PrintOptions(S)
        \o <<S.count_saves, S.count_mcmc_steps, S.count_mcmc_steps_since_save,
             1, work_ratio, 1, S.num_threads, compression>>
        \o <<n>> \o Vec(S.particles, n)
        \o <<n>> \o Flat(Vec(S.log_likelihoods, n))
        \o <<n>> \o Vec(S.level_assignments, n)
        \o <<Len(S.levels)>> \o Flat([k \in 1..Len(S.levels) |-> PrintLevel(S.levels[k])])
        \o <<Len(S.all_above)>> \o Flat(S.all_above)
        \o <<S.num_threads>> \o Vec(S.rngs, S.num_threads)

\* A read that stops before the generators: rngs keep their constructed state
read_without_rngs(S, t) ==
    LET p0 == NumOptionTokens
        p1 == p0 + 8
        np == t[p1 + 1]
        p2 == p1 + 1 + np
        nl == t[p2 + 1]
        p3 == p2 + 1 + 2 * nl
        na == t[p3 + 1]
        p4 == p3 + 1 + na
        nlev == t[p4 + 1]
        p5 == p4 + 1 + 8 * nlev
        nab == t[p5 + 1]
    IN  [S EXCEPT
           !.count_saves = t[p0 + 1],
           !.count_mcmc_steps = t[p0 + 2],
           !.count_mcmc_steps_since_save = t[p0 + 3],
           !.num_threads = t[p0 + 7],
           !.particles = [i \in 0..(np - 1) |-> t[p1 + 2 + i]],
           !.log_likelihoods = [i \in 0..(nl - 1) |-> <<t[p2 + 2 + 2 * i], t[p2 + 3 + 2 * i]>>],
           !.level_assignments = [i \in 0..(na - 1) |-> t[p3 + 2 + i]],
           !.levels = [k \in 1..nlev |-> ReadLevel(t, p4 + 1 + 8 * (k - 1))],
           !.all_above = [k \in 1..nab |-> <<t[p5 + 2 * k], t[p5 + 2 * k + 1]>>]]

\* Sampler::read into the sampler S; the options of the stream are skipped,
\* difficulty, work_ratio, save_to_disk and compression are configuration
\* here and their tokens are consumed
read(S, t) ==
    LET p0 == NumOptionTokens
        p1 == p0 + 8
        np == t[p1 + 1]
        p2 == p1 + 1 + np
        nl == t[p2 + 1]
        p3 == p2 + 1 + 2 * nl
        na == t[p3 + 1]
        p4 == p3 + 1 + na
        nlev == t[p4 + 1]
        p5 == p4 + 1 + 8 * nlev
        nab == t[p5 + 1]
        p6 == p5 + 1 + 2 * nab
        nr == t[p6 + 1]
    IN  [S EXCEPT
           !.count_saves = t[p0 + 1],
           !.count_mcmc_steps = t[p0 + 2],
           !.count_mcmc_steps_since_save = t[p0 + 3],
           !.num_threads = t[p0 + 7],
           !.particles = [i \in 0..(np - 1) |-> t[p1 + 2 + i]],
           !.log_likelihoods = [i \in 0..(nl - 1) |-> <<t[p2 + 2 + 2 * i], t[p2 + 3 + 2 * i]>>],
           !.level_assignments = [i \in 0..(na - 1) |-> t[p3 + 2 + i]],
           !.levels = [k \in 1..nlev |-> ReadLevel(t, p4 + 1 + 8 * (k - 1))],
           !.all_above = [k \in 1..nab |-> <<t[p5 + 2 * k], t[p5 + 2 * k + 1]>>],
           !.rngs = [i \in DOMAIN S.rngs |-> IF i < nr THEN t[p6 + 2 + i] ELSE S.rngs[i]]]

\* ------------------------------------------------------------------------
\* Phase C of Sampler::run_thread

\* The merge taking every diff against the running levels, not levels_orig
RECURSIVE MergeFromRunning(_, _, _, _)
MergeFromRunning(levels, levels_orig, copies, t) ==
    IF t \notin DOMAIN copies THEN levels
    ELSE MergeFromRunning(
           [i \in 1..Len(levels) |->
              [levels[i] EXCEPT
                 !.accepts = @ + (copies[t][i].accepts - levels[i].accepts),
                 !.tries = @ + (copies[t][i].tries - levels[i].tries),
                 !.visits = @ + (copies[t][i].visits - levels[i].visits),
                 !.exceeds = @ + (copies[t][i].exceeds - levels[i].exceeds)]],
           levels_orig, copies, t + 1)

\* The merge with every diff taken the wrong way round
RECURSIVE MergeFromReversed(_, _, _, _)
MergeFromReversed(levels, levels_orig, copies, t) ==
    IF t \notin DOMAIN copies THEN levels
    ELSE MergeFromReversed(
           [i \in 1..Len(levels) |->
              [levels[i] EXCEPT
                 !.accepts = @ + (levels_orig[i].accepts - copies[t][i].accepts),
                 !.tries = @ + (levels_orig[i].tries - copies[t][i].tries),
                 !.visits = @ + (levels_orig[i].visits - copies[t][i].visits),
                 !.exceeds = @ + (levels_orig[i].exceeds - copies[t][i].exceeds)]],
           levels_orig, copies, t + 1)

\* lines 365-380: apply the diffs of every copy to levels
RECURSIVE MergeFrom(_, _, _, _)
MergeFrom(levels, levels_orig, copies, t) ==
    IF t \notin DOMAIN copies THEN levels
    ELSE MergeFrom(
           [i \in 1..Len(levels) |->
              [levels[i] EXCEPT
                 !.accepts = @ + (copies[t][i].accepts - levels_orig[i].accepts),
                 !.tries = @ + (copies[t][i].tries - levels_orig[i].tries),
                 !.visits = @ + (copies[t][i].visits - levels_orig[i].visits),
                 !.exceeds = @ + (copies[t][i].exceeds - levels_orig[i].exceeds)]],
           levels_orig, copies, t + 1)

merge_copies(S) == [S EXCEPT !.levels = MergeFrom(S.levels, S.levels, S.copies_of_levels, 0)]

\* lines 382-389: drain every above[t] into all_above
combine_above(S) ==
    [S EXCEPT !.all_above = @ \o Flat(Vec(S.above, S.num_threads)),
              !.above = [t \in Threads(S) |-> <<>>]]

\* argsort(log_likelihoods).back(): a slot holding the greatest likelihood
Best(S) == CHOOSE i \in Slots(S) :
              \A j \in Slots(S) : ~Less(S.log_likelihoods[i], S.log_likelihoods[j])

\* A creation that puts the new level in front of the others
create_level_front(S) ==
    IF ~enough_levels(S.levels) /\ Len(S.all_above) >= new_level_interval
    THEN LET sorted == SortSeq(S.all_above, Less)
             index == ((compression - 1) * Len(sorted)) \div compression
             S1 == [S EXCEPT !.levels = <<Level(sorted[index + 1])>> \o @,
                             !.all_above = SubSeq(sorted, index + 2, Len(sorted)),
                             !.above = [t \in Threads(S) |-> <<>>]]
         IN  IF enough_levels(S1.levels)
             THEN [S1 EXCEPT !.levels = renormalise_visits(@, Reg), !.all_above = <<>>]
             ELSE kill_lagging_particles(S1)
    ELSE S

\* lines 443-473: maybe create a level
create_level(S) ==
    IF ~enough_levels(S.levels) /\ Len(S.all_above) >= new_level_interval
    THEN LET sorted == SortSeq(S.all_above, Less)
             index == ((compression - 1) * Len(sorted)) \div compression
             S1 == [S EXCEPT !.levels = Append(@, Level(sorted[index + 1])),
                             !.all_above = SubSeq(sorted, index + 2, Len(sorted)),
                             !.above = [t \in Threads(S) |-> <<>>]]
         IN  IF enough_levels(S1.levels)
             THEN [S1 EXCEPT !.levels = renormalise_visits(@, Reg), !.all_above = <<>>]
             ELSE kill_lagging_particles(S1)
    ELSE S

\* A save that leaves count_mcmc_steps_since_save as it is
save_without_reset(S) ==
    IF S.count_mcmc_steps_since_save >= save_interval
    THEN [S EXCEPT !.count_saves = @ + 1]
    ELSE S

\* lines 507-519: maybe save; save_particle draws the particle to write
save(S) ==
    IF S.count_mcmc_steps_since_save >= save_interval
    THEN LET S1 == [S EXCEPT !.count_saves = @ + 1,
                             !.count_mcmc_steps_since_save = 0,
                             !.rngs[0] = IF save_to_disk
                                         THEN rand_int(@, S.num_threads * num_particles).rng
                                         ELSE @]
             b == Best(S1)
         IN  IF Less(S1.best_ever_log_likelihood, S1.log_likelihoods[b])
             THEN [S1 EXCEPT !.best_ever_particle = S1.particles[b],
                             !.best_ever_log_likelihood = S1.log_likelihoods[b]]
             ELSE S1
    ELSE S

\* Sampler::do_bookkeeping (adaptive is off: difficulty and work_ratio stay)
do_bookkeeping(S) ==
    LET S1 == create_level(S)
    IN  save([S1 EXCEPT !.levels = recalculate_log_X(@)])

\* lines 361-389: count the steps, merge the diffs, combine the above buffers
merge(S) ==
    combine_above(merge_copies(
        [S EXCEPT !.count_mcmc_steps = @ + S.num_threads * thread_steps,
                  !.count_mcmc_steps_since_save = @ + S.num_threads * thread_steps]))

\* lines 359-393: all of phase C
phase_c(S) == do_bookkeeping(merge(S))

\* lines 332-338: phase A
phase_a(S) == [S EXCEPT !.copies_of_levels = [t \in Threads(S) |-> S.levels]]

\* ------------------------------------------------------------------------
\* Sampler::Sampler and Sampler::initialise
Sampler(num_threads, max_num_saves) ==
    LET n == num_threads * num_particles
    IN  [particles |-> [i \in 0..(n - 1) |-> 0],
         log_likelihoods |-> [i \in 0..(n - 1) |-> DefaultLikelihood],
         level_assignments |-> [i \in 0..(n - 1) |-> 0],
         levels |-> <<Level(DefaultLikelihood)>>,
         copies_of_levels |-> [t \in 0..(num_threads - 1) |-> <<Level(DefaultLikelihood)>>],
         all_above |-> <<>>,
         above |-> [t \in 0..(num_threads - 1) |-> <<>>],
         rngs |-> [t \in 0..(num_threads - 1) |-> 0],
         count_saves |-> 0,
         count_mcmc_steps_since_save |-> 0,
         count_mcmc_steps |-> 0,
         deletions |-> 0,
         best_ever_particle |-> 0,
         best_ever_log_likelihood |-> DefaultLikelihood,
         num_threads |-> num_threads,
         max_num_saves |-> max_num_saves,
         hung |-> FALSE]

\* lines 120-124: the particles from the prior, tiebreakers from rngs[0]
RECURSIVE FromPrior(_, _)
FromPrior(S, i) ==
    IF i = S.num_threads * num_particles THEN S
    ELSE LET x == from_prior(i)
             u == rand(S.rngs[0])
         IN  FromPrior([S EXCEPT !.particles[i] = x,
                                 !.log_likelihoods[i] = LikelihoodType(log_likelihood(x), u.v),
                                 !.rngs[0] = u.rng], i + 1)

initialise(S, first_seed) ==
    FromPrior([S EXCEPT !.rngs = [t \in Threads(S) |-> set_seed(first_seed + t)],
                        !.above = [t \in Threads(S) |-> <<>>]], 0)

\* One whole cycle run by a single scheduler: phase A, the bursts of threads
\* 0, 1, ... one after the other, phase C
RECURSIVE Burst(_, _, _)
Burst(S, thread, i) ==
    IF i = thread_steps THEN S ELSE Burst(mcmc_step(S, thread), thread, i + 1)

RECURSIVE Bursts(_, _)
Bursts(S, thread) ==
    IF thread = S.num_threads THEN S ELSE Bursts(Burst(S, thread, 0), thread + 1)

RunCycle(S) == phase_c(Bursts(phase_a(S), 0))

\* ------------------------------------------------------------------------
\* State
VARIABLES
    sampler,              \* the fields of the Sampler object
    pc,                   \* where each worker thread is in run_thread
    step,                 \* the loop counter i of mcmc_thread, per thread
    barrier,              \* the Barrier: [count, generation]
    gen,                  \* the generation a waiting thread saw on arrival
    isThreadDone,         \* std::vector<bool>, one packed word
    word,                 \* the word a thread loaded to set its bit
    shouldThreadsStop,
    pc_main,              \* where the supervisor is in run()
    checkpoint_file,      \* the numbers of options.checkpoint_file, <<>> if absent
    best_likelihood_file, \* the likelihoods appended to options.best_likelihood_file
    snapshot,             \* history: levels as copied in phase A
    at_save,              \* history: the sampler when the checkpoint was written
    ref,                  \* history: the run that was not interrupted
    resumed,              \* history: this process started from the checkpoint
    next_file,            \* the numbers of options.checkpoint_file + ".next"
    io,                   \* where thread 0 is in save_checkpoint
    increment,            \* the argument of the last increase_max_num_saves
    at_book,              \* history: the sampler before the last do_bookkeeping
                          \* or kill pass
    pass                  \* the locals of a kill pass taken step by step

vars == <<sampler, pc, step, barrier, gen, isThreadDone, word, shouldThreadsStop,
          pc_main, checkpoint_file, best_likelihood_file, snapshot, at_save, ref,
          resumed, next_file, io, increment, max_num_levels, at_book, pass>>

workers == <<pc, step, barrier, gen, isThreadDone, word>>
files == <<checkpoint_file, best_likelihood_file, next_file, io>>
caller == <<max_num_levels, increment>>
history == <<snapshot, at_save, ref, resumed, at_book, pass>>

\* No kill pass is being taken step by step
NoPass == [good |-> <<>>, max_log_push |-> 0, i |-> 0]

T == Threads(sampler)

\* The state after Sampler() and initialise(first_seed, false), for a number
\* of threads, a seed and a max_num_saves, with max_num_levels = levels
InitWith(levels) ==
    /\ max_num_levels = levels
    /\ \E n \in 1..MaxThreads, first_seed \in 0..MaxSeed, m \in 0..MaxSaves :
          sampler = initialise(Sampler(n, m), first_seed)
    /\ pc = [t \in T |-> "idle"]
    /\ step = [t \in T |-> 0]
    /\ barrier = [count |-> 0, generation |-> 0]
    /\ gen = [t \in T |-> 0]
    /\ isThreadDone = [t \in T |-> FALSE]
    /\ word = [t \in T |-> [u \in T |-> FALSE]]
    /\ shouldThreadsStop = FALSE
    /\ pc_main = "start"
    /\ checkpoint_file = <<>>
    /\ best_likelihood_file = <<>>
    /\ snapshot = sampler.levels
    /\ at_save = sampler
    /\ ref = sampler
    /\ resumed = FALSE
    /\ next_file = <<>>
    /\ io = [at |-> "none", content |-> <<>>, best |-> <<>>]
    /\ increment = 0
    /\ at_book = sampler
    /\ pass = NoPass

Init == InitWith(ShallowLevels)

\* run(), lines 147-161: reset the flags, create the barrier, launch the threads
Launch ==
    /\ pc_main = "start"
    /\ isThreadDone' = [t \in T |-> FALSE]
    /\ shouldThreadsStop' = FALSE
    /\ barrier' = [count |-> sampler.num_threads, generation |-> 0]
    /\ pc' = [t \in T |-> IF t = 0 THEN "top" ELSE "bar1"]
    /\ pc_main' = "poll"
    /\ UNCHANGED <<sampler, step, gen, word, caller, files, history>>

\* run_thread, lines 332-338: thread 0 sets up the copies of levels
PhaseA(t) ==
    /\ pc[t] = "top"
    /\ t = 0
    /\ sampler' = phase_a(sampler)
    /\ snapshot' = sampler.levels
    /\ pc' = [pc EXCEPT ![t] = "bar1"]
    /\ UNCHANGED <<step, barrier, gen, isThreadDone, word, shouldThreadsStop,
                   pc_main, caller, files, at_save, ref, resumed, at_book, pass>>

\* A loop whose threads other than 0 do not wait at the first barrier
AfterBarrierOnce(t, at) ==
    IF at \in {"bar1", "wait1"} \/ t # 0 THEN "check" ELSE "phaseC"

\* Where a thread goes on after a barrier
AfterBarrier(t, at) ==
    IF at \in {"bar1", "wait1"} THEN "check"
    ELSE IF t = 0 THEN "phaseC" ELSE "bar1"

\* Barrier::wait, arriving: the last thread releases the others, the others wait
BarrierArrive(t) ==
    /\ pc[t] \in {"bar1", "bar2"}
    /\ IF barrier.count = 1
       THEN /\ barrier' = [count |-> sampler.num_threads,
                           generation |-> 1 - barrier.generation]
            /\ pc' = [pc EXCEPT ![t] = AfterBarrier(t, pc[t])]
            /\ gen' = gen
       ELSE /\ barrier' = [barrier EXCEPT !.count = @ - 1]
            /\ pc' = [pc EXCEPT ![t] = IF pc[t] = "bar1" THEN "wait1" ELSE "wait2"]
            /\ gen' = [gen EXCEPT ![t] = barrier.generation]
    /\ UNCHANGED <<sampler, step, isThreadDone, word, shouldThreadsStop,
                   pc_main, caller, files, history>>

\* Barrier::wait, leaving once the generation has changed
BarrierLeave(t) ==
    /\ pc[t] \in {"wait1", "wait2"}
    /\ barrier.generation # gen[t]
    /\ pc' = [pc EXCEPT ![t] = AfterBarrier(t, pc[t])]
    /\ UNCHANGED <<sampler, step, barrier, gen, isThreadDone, word,
                   shouldThreadsStop, pc_main, caller, files, history>>

\* The termination condition without the test count_saves != 0
TerminateAtZero(S, stop) ==
    stop \/ (S.max_num_saves # 0 /\ S.count_saves % S.max_num_saves = 0)

\* run_thread, line 346: the termination condition
Terminate(S, stop) ==
    stop \/ (S.max_num_saves # 0 /\ S.count_saves # 0
             /\ S.count_saves % S.max_num_saves = 0)

\* run_thread, lines 345-349: the termination check; on exit the thread loads
\* the word of isThreadDone in which it will set its bit
CheckWithin(t, steps) ==
    /\ pc[t] = "check"
    /\ IF Terminate(sampler, shouldThreadsStop)
       THEN /\ word' = [word EXCEPT ![t] = isThreadDone]
            /\ pc' = [pc EXCEPT ![t] = "exit"]
            /\ step' = step
       ELSE /\ sampler.count_mcmc_steps < steps
            /\ pc' = [pc EXCEPT ![t] = "mcmc"]
            /\ step' = [step EXCEPT ![t] = 0]
            /\ word' = word
    /\ UNCHANGED <<sampler, barrier, gen, isThreadDone, shouldThreadsStop,
                   pc_main, caller, files, history>>

\* The termination check, followed for MaxSteps steps of the run
Check(t) == CheckWithin(t, MaxSteps)

\* run_thread, lines 347-348: isThreadDone[thread] = true stores the word back
\* with the thread's bit set, and the thread returns
SetDone(t) ==
    /\ pc[t] = "exit"
    /\ isThreadDone' = [word[t] EXCEPT ![t] = TRUE]
    /\ pc' = [pc EXCEPT ![t] = "done"]
    /\ UNCHANGED <<sampler, step, barrier, gen, word, shouldThreadsStop,
                   pc_main, caller, files, history>>

\* mcmc_thread, lines 202-218: one iteration of the burst of thread t
Mcmc(t) ==
    /\ pc[t] = "mcmc"
    /\ sampler' = mcmc_step(sampler, t)
    /\ step' = [step EXCEPT ![t] = @ + 1]
    /\ pc' = [pc EXCEPT ![t] = IF step[t] + 1 = thread_steps THEN "bar2" ELSE "mcmc"]
    /\ UNCHANGED <<barrier, gen, isThreadDone, word, shouldThreadsStop,
                   pc_main, caller, files, history>>

\* run_thread, lines 359-389: thread 0 counts the steps, applies the diffs of
\* the copies to levels and drains the above buffers
Merge(t) ==
    /\ pc[t] = "phaseC"
    /\ sampler' = merge(sampler)
    /\ pc' = [pc EXCEPT ![t] = "book"]
    /\ UNCHANGED <<step, barrier, gen, isThreadDone, word, shouldThreadsStop,
                   pc_main, caller, files, history>>

\* run_thread, line 392: do_bookkeeping, with the files it writes
\* (save_checkpoint and save_best_particle)
Bookkeeping(t) ==
    /\ pc[t] = "book"
    /\ LET S1 == do_bookkeeping(sampler)
           saved == S1.count_saves # sampler.count_saves
       IN  /\ ~S1.hung
           /\ sampler' = S1
           /\ checkpoint_file' = IF saved THEN print(S1) ELSE checkpoint_file
           /\ best_likelihood_file' =
                 IF S1.best_ever_log_likelihood # sampler.best_ever_log_likelihood
                 THEN Append(best_likelihood_file, S1.best_ever_log_likelihood)
                 ELSE best_likelihood_file
           /\ at_save' = IF saved THEN S1 ELSE at_save
           /\ at_book' = sampler
           /\ pass' = pass
    /\ ref' = RunCycle(ref)
    /\ pc' = [pc EXCEPT ![t] = "top"]
    /\ UNCHANGED <<step, barrier, gen, isThreadDone, word, shouldThreadsStop,
                   pc_main, snapshot, resumed, next_file, io, caller>>

\* ------------------------------------------------------------------------
\* save_checkpoint step by step, for a run that can fail or crash inside it

\* The numbers after which a write of n numbers can fail: after the first,
\* half-way, before the last
CutPoints(n) == {1, n \div 2, n - 1}

\* do_bookkeeping up to the call of save_checkpoint (line 512); without a
\* save it is the whole of do_bookkeeping
BookkeepingIO(t) ==
    /\ pc[t] = "book"
    /\ LET S1 == do_bookkeeping(sampler)
           saved == S1.count_saves # sampler.count_saves
           better == S1.best_ever_log_likelihood # sampler.best_ever_log_likelihood
       IN  /\ ~S1.hung
           /\ sampler' = S1
           /\ at_save' = IF saved THEN S1 ELSE at_save
           /\ at_book' = sampler
           /\ pass' = pass
           /\ io' = IF saved
                    THEN [at |-> "open", content |-> print(S1),
                          best |-> IF better THEN <<S1.best_ever_log_likelihood>> ELSE <<>>]
                    ELSE io
           /\ pc' = [pc EXCEPT ![t] = IF saved THEN "save" ELSE "top"]
    /\ ref' = RunCycle(ref)
    /\ UNCHANGED <<step, barrier, gen, isThreadDone, word, shouldThreadsStop,
                   pc_main, snapshot, resumed, checkpoint_file,
                   best_likelihood_file, next_file, caller>>

\* lines 513-519 and the return to the top of the loop of run_thread
AfterSave(t) ==
    /\ best_likelihood_file' = best_likelihood_file \o io.best
    /\ io' = [at |-> "none", content |-> <<>>, best |-> <<>>]
    /\ pc' = [pc EXCEPT ![t] = "top"]

\* save_checkpoint, lines 64-66 and 71-73: the temporary file is opened and
\* truncated, or the open fails and the save is given up
OpenNext(t) ==
    /\ pc[t] = "save"
    /\ io.at = "open"
    /\ \/ /\ next_file' = <<>>
          /\ io' = [io EXCEPT !.at = "write"]
          /\ UNCHANGED <<pc, best_likelihood_file>>
       \/ /\ AfterSave(t)
          /\ UNCHANGED next_file
    /\ UNCHANGED <<sampler, step, barrier, gen, isThreadDone, word,
                   shouldThreadsStop, pc_main, checkpoint_file, history, caller>>

\* save_checkpoint, lines 67-68: print writes the stream and the file is
\* closed; a write that fails leaves what was written before it, and the
\* state of the stream is not looked at
WriteNext(t) ==
    /\ pc[t] = "save"
    /\ io.at = "write"
    /\ \/ next_file' = io.content
       \/ \E k \in CutPoints(Len(io.content)) : next_file' = SubSeq(io.content, 1, k)
    /\ io' = [io EXCEPT !.at = "rename"]
    /\ UNCHANGED <<sampler, pc, step, barrier, gen, isThreadDone, word,
                   shouldThreadsStop, pc_main, checkpoint_file,
                   best_likelihood_file, history, caller>>

\* save_checkpoint, line 69: the temporary file replaces the checkpoint
RenameNext(t) ==
    /\ pc[t] = "save"
    /\ io.at = "rename"
    /\ checkpoint_file' = next_file
    /\ next_file' = <<>>
    /\ AfterSave(t)
    /\ UNCHANGED <<sampler, step, barrier, gen, isThreadDone, word,
                   shouldThreadsStop, pc_main, history, caller>>

\* The process dies: nothing runs any more, the files stay as they are
Crash ==
    /\ pc_main = "poll"
    /\ pc_main' = "crashed"
    /\ pc' = [t \in T |-> "crashed"]
    /\ UNCHANGED <<sampler, step, barrier, gen, isThreadDone, word,
                   shouldThreadsStop, caller, files, history>>

\* ------------------------------------------------------------------------
\* unsigned int, with UIntBits bits in place of 32
UIntMod == Pow(2, UIntBits)

\* Sampler::increase_max_num_saves: the sum wraps like an unsigned int; ok is
\* FALSE where the method throws
increase_max_num_saves(S, inc) ==
    LET new_max_num_saves == (S.max_num_saves + inc) % UIntMod
    IN  IF new_max_num_saves <= S.max_num_saves
        THEN [ok |-> FALSE, S |-> S]
        ELSE [ok |-> TRUE, S |-> [S EXCEPT !.max_num_saves = new_max_num_saves]]

\* The caller raises max_num_saves before a run; the exception reaches it
IncreaseMaxNumSaves ==
    /\ pc_main = "start"
    /\ \E inc \in 0..(UIntMod - 1) :
          LET r == increase_max_num_saves(sampler, inc)
          IN  /\ increment' = inc
              /\ sampler' = r.S
              /\ pc_main' = IF r.ok THEN "start" ELSE "overflow"
    /\ UNCHANGED <<workers, shouldThreadsStop, max_num_levels, files, history>>

AllDone == \A t \in T : isThreadDone[t]

\* run(), lines 164-167: the supervisor sees every flag set
PollDone ==
    /\ pc_main = "poll"
    /\ AllDone
    /\ pc_main' = "join"
    /\ UNCHANGED <<sampler, workers, shouldThreadsStop, caller, files, history>>

\* run(), lines 170-181: join every thread, delete the barrier, return
Join ==
    /\ pc_main = "join"
    /\ \A t \in T : pc[t] = "done"
    /\ pc_main' = "returned"
    /\ UNCHANGED <<sampler, workers, shouldThreadsStop, caller, files, history>>

\* DNEST4_ABORTABLE in the loop of run(): the hook reports an interrupt and
\* the exception leaves run()
Interrupt ==
    /\ pc_main = "poll"
    /\ ~AllDone
    /\ pc_main' = "thrown"
    /\ UNCHANGED <<sampler, workers, shouldThreadsStop, caller, files, history>>

\* The host sets the cancellation flag while the threads run
RequestStop ==
    /\ pc_main \in {"poll", "thrown"}
    /\ ~shouldThreadsStop
    /\ shouldThreadsStop' = TRUE
    /\ UNCHANGED <<sampler, workers, pc_main, caller, files, history>>

\* A new process: Sampler(), initialise(seed, true) reading the checkpoint,
\* with any max_num_saves; run() is called next
Restart ==
    /\ pc_main = "returned"
    /\ checkpoint_file # <<>>
    /\ \E m \in 0..(2 * MaxSaves) :
          sampler' = read(Sampler(sampler.num_threads, m), checkpoint_file)
    /\ pc' = [t \in T |-> "idle"]
    /\ step' = [t \in T |-> 0]
    /\ pc_main' = "start"
    /\ ref' = sampler
    /\ resumed' = TRUE
    /\ UNCHANGED <<barrier, gen, isThreadDone, word, shouldThreadsStop, caller, files,
                   snapshot, at_save, at_book, pass>>

Next ==
    \/ Launch
    \/ \E t \in T : PhaseA(t)
    \/ \E t \in T : BarrierArrive(t)
    \/ \E t \in T : BarrierLeave(t)
    \/ \E t \in T : Check(t)
    \/ \E t \in T : SetDone(t)
    \/ \E t \in T : Mcmc(t)
    \/ \E t \in T : Merge(t)
    \/ \E t \in T : Bookkeeping(t)
    \/ PollDone
    \/ Join

Spec == Init /\ [][Next]_vars

NextCancel == Next \/ Interrupt \/ RequestStop

SpecCancel == Init /\ [][NextCancel]_vars

NextResume == Next \/ Restart

NextCrash ==
    \/ Launch
    \/ \E t \in T : PhaseA(t)
    \/ \E t \in T : BarrierArrive(t)
    \/ \E t \in T : BarrierLeave(t)
    \/ \E t \in T : Check(t)
    \/ \E t \in T : SetDone(t)
    \/ \E t \in T : Mcmc(t)
    \/ \E t \in T : Merge(t)
    \/ \E t \in T : BookkeepingIO(t)
    \/ \E t \in T : OpenNext(t)
    \/ \E t \in T : WriteNext(t)
    \/ \E t \in T : RenameNext(t)
    \/ PollDone
    \/ Join
    \/ Crash

SpecCrash == Init /\ [][NextCrash]_vars

\* The calls of increase_max_num_saves alone
NextSaves == IncreaseMaxNumSaves

SpecSaves == Init /\ [][NextSaves]_vars

SpecResume == Init /\ [][NextResume]_vars

\* Runs and restarts followed for two more saves, so that a checkpoint holds
\* a count_saves no max_num_saves of 2 or more divides
OverSteps == MaxSteps + 2 * save_interval

NextOver ==
    \/ Launch
    \/ \E t \in T : PhaseA(t)
    \/ \E t \in T : BarrierArrive(t)
    \/ \E t \in T : BarrierLeave(t)
    \/ \E t \in T : CheckWithin(t, OverSteps)
    \/ \E t \in T : SetDone(t)
    \/ \E t \in T : Mcmc(t)
    \/ \E t \in T : Merge(t)
    \/ \E t \in T : Bookkeeping(t)
    \/ PollDone
    \/ Join
    \/ Restart

SpecOver == Init /\ [][NextOver]_vars

\* ------------------------------------------------------------------------
\* kill_lagging_particles alone, over the states do_bookkeeping calls it in:
\* a level has just been created and is not the last one, so len levels of
\* max_num_levels = DeepLevels exist and every particle is below the new one

\* The states of rngs[0] the pass is started with
KillSeeds == 1024

KillLevels(len) == [k \in 1..len |-> Level(LikelihoodType(k - 2, 0))]

KillInput(n, len, a, r) ==
    [Sampler(n, 0) EXCEPT
        !.levels = KillLevels(len),
        !.copies_of_levels = [t \in 0..(n - 1) |-> KillLevels(len - 1)],
        !.level_assignments = a,
        !.particles = [i \in 0..(n * num_particles - 1) |-> from_prior(i)],
        !.log_likelihoods = [i \in 0..(n * num_particles - 1) |->
                                LikelihoodType(log_likelihood(from_prior(i)), 1)],
        !.rngs = [t \in 0..(n - 1) |-> IF t = 0 THEN r ELSE set_seed(t)]]

InitKill ==
    /\ max_num_levels = DeepLevels
    /\ \E n \in 1..MaxThreads, len \in 2..(DeepLevels - 1), r \in 0..(KillSeeds - 1) :
          \E a \in [0..(n * num_particles - 1) -> 0..(len - 2)] :
              sampler = KillInput(n, len, a, r)
    /\ pc = [t \in T |-> "idle"]
    /\ step = [t \in T |-> 0]
    /\ barrier = [count |-> 0, generation |-> 0]
    /\ gen = [t \in T |-> 0]
    /\ isThreadDone = [t \in T |-> FALSE]
    /\ word = [t \in T |-> [u \in T |-> FALSE]]
    /\ shouldThreadsStop = FALSE
    /\ pc_main = "kill"
    /\ checkpoint_file = <<>>
    /\ best_likelihood_file = <<>>
    /\ snapshot = sampler.levels
    /\ at_save = sampler
    /\ ref = sampler
    /\ resumed = FALSE
    /\ next_file = <<>>
    /\ io = [at |-> "none", content |-> <<>>, best |-> <<>>]
    /\ increment = 0
    /\ at_book = sampler
    /\ pass = NoPass

\* One pass; a pass whose do-while is still drawing has not returned
KillPass ==
    /\ pc_main = "kill"
    /\ LET S1 == kill_lagging_particles(sampler)
       IN  /\ ~S1.hung
           /\ sampler' = S1
    /\ at_book' = sampler
    /\ pc_main' = "killed"
    /\ UNCHANGED <<workers, shouldThreadsStop, caller, files, snapshot, at_save,
                   ref, resumed, pass>>

NextKill == KillPass

SpecKill == InitKill /\ [][NextKill]_vars

\* ------------------------------------------------------------------------
\* kill_lagging_particles step by step, its draws being any outcome of
\* rngs[0] (whose state is not followed here)

\* The do-while leaving with any slot, flagged or not
KillAcceptsAny(S, good, max_log_push, c, u) ==
    LET p == Exp(log_push(S.levels, S.level_assignments[c]) - max_log_push)
    IN  u * p[2] < RandGrid * p[1]

\* lines 680-684: the do-while leaves with i_copy = c when good[c] and
\* rand() < exp(log_push(level_assignments[c]) - max_log_push), u = rand()
KillAccepts(S, good, max_log_push, c, u) ==
    LET p == Exp(log_push(S.levels, S.level_assignments[c]) - max_log_push)
    IN  good[c] /\ u * p[2] < RandGrid * p[1]

\* The pass from one state of rngs[0]
InitKillSteps == InitKill /\ sampler.rngs[0] = 0

\* lines 649-668: the first loop, one draw u[i] of rand() per slot
KillFlag ==
    /\ pc_main = "kill"
    /\ \E u \in [Slots(sampler) -> 0..(RandGrid - 1)] :
          pass' = [good |-> [i \in Slots(sampler) |->
                               ~RandLeq(u[i], KillProbability(
                                   log_push(sampler.levels, sampler.level_assignments[i])))],
                   max_log_push |-> MaxLogPush(sampler, sampler.num_threads * num_particles - 1),
                   i |-> 0]
    /\ at_book' = sampler
    /\ pc_main' = IF \E i \in Slots(sampler) : pass'.good[i] THEN "replace" ELSE "killed"
    /\ UNCHANGED <<sampler, workers, shouldThreadsStop, caller, files, snapshot,
                   at_save, ref, resumed>>

\* lines 673-677: the second loop goes to the next slot, or ends
KillLoop ==
    /\ pc_main = "replace"
    /\ IF pass.i = sampler.num_threads * num_particles
       THEN pc_main' = "killed" /\ pass' = pass
       ELSE IF pass.good[pass.i]
            THEN pc_main' = "replace" /\ pass' = [pass EXCEPT !.i = @ + 1]
            ELSE pc_main' = "choose" /\ pass' = pass
    /\ UNCHANGED <<sampler, workers, shouldThreadsStop, caller, files, snapshot,
                   at_save, ref, resumed, at_book>>

\* lines 680-696: one iteration of the do-while; a rejected draw leaves the
\* loop where it is, an accepted one replaces slot i
KillDraw ==
    /\ pc_main = "choose"
    /\ \E c \in Slots(sampler), u \in 0..(RandGrid - 1) :
          IF KillAccepts(sampler, pass.good, pass.max_log_push, c, u)
          THEN /\ sampler' = [sampler EXCEPT
                                 !.particles[pass.i] = sampler.particles[c],
                                 !.log_likelihoods[pass.i] = sampler.log_likelihoods[c],
                                 !.level_assignments[pass.i] = sampler.level_assignments[c],
                                 !.deletions = @ + 1]
               /\ pass' = [pass EXCEPT !.i = @ + 1]
               /\ pc_main' = "replace"
          ELSE UNCHANGED <<sampler, pass, pc_main>>
    /\ UNCHANGED <<workers, shouldThreadsStop, caller, files, snapshot,
                   at_save, ref, resumed, at_book>>

NextKillSteps == KillFlag \/ KillLoop \/ KillDraw

\* Fair draws: an outcome that stays possible is drawn in the end
SpecKillSteps ==
    /\ InitKillSteps
    /\ [][NextKillSteps]_vars
    /\ WF_vars(KillFlag) /\ WF_vars(KillLoop) /\ WF_vars(KillDraw)

\* ------------------------------------------------------------------------
\* Properties

\* A cycle boundary: after initialisation, and after every phase C
AtBoundary == pc[0] \in {"idle", "top"}

Threshold(S, i) == S.levels[S.level_assignments[i] + 1].log_likelihood

LevelCounters == {"accepts", "tries", "visits", "exceeds"}

\* C1: at every cycle boundary the threshold of the level a particle is
\* assigned to is strictly below the particle's likelihood, for every slot
C1_ThresholdBelowParticle ==
    AtBoundary =>
        \A i \in Slots(sampler) :
            /\ sampler.level_assignments[i] < Len(sampler.levels)
            /\ Less(Threshold(sampler, i), sampler.log_likelihoods[i])

\* C1 witness: a boundary after a level was created, a lagging particle was
\* replaced and a particle has moved to a level above 0
C1_Witness ==
    /\ pc[0] = "top"
    /\ Len(sampler.levels) >= 2
    /\ sampler.deletions > 0
    /\ \E i \in Slots(sampler) : sampler.level_assignments[i] >= 1

\* C2: levels is never empty and its thresholds are strictly increasing
C2_LevelsStrictlyIncreasing ==
    /\ Len(sampler.levels) >= 1
    /\ \A k \in 1..(Len(sampler.levels) - 1) :
          Less(sampler.levels[k].log_likelihood, sampler.levels[k + 1].log_likelihood)

\* X(a) <= X(b) for rationals
RatLeq(a, b) == a[1] * b[2] <= b[1] * a[2]

\* C3: at every cycle boundary log_X of level 0 is 0 (X = 1), log_X does not
\* increase along the levels, and exceeds <= visits for every level
C3_LogXNonIncreasing ==
    AtBoundary =>
        /\ sampler.levels[1].log_X = <<1, 1>>
        /\ \A k \in 1..(Len(sampler.levels) - 1) :
              RatLeq(sampler.levels[k + 1].log_X, sampler.levels[k].log_X)
        /\ \A k \in 1..Len(sampler.levels) :
              sampler.levels[k].exceeds <= sampler.levels[k].visits

\* C3 witness: a boundary with three levels where particles have exceeded
\* the next level and log_X has dropped twice
C3_Witness ==
    /\ pc[0] = "top"
    /\ Len(sampler.levels) = 3
    /\ sampler.levels[1].exceeds > 0
    /\ sampler.levels[2].visits > 0
    /\ sampler.levels[3].log_X # sampler.levels[2].log_X

CountersNotLowered(old, new) ==
    \A k \in 1..Len(old) :
        /\ k <= Len(new)
        /\ \A c \in LevelCounters : new[k][c] >= old[k][c]

\* C4 as stated: no step ever lowers a counter of a level
C4_CountersMonotone == [][CountersNotLowered(sampler.levels, sampler.levels')]_vars

\* The step in which level construction finishes (renormalise_visits runs)
FinishesLevels == ~enough_levels(sampler.levels) /\ enough_levels(sampler.levels')

\* C4 amended: no step other than the one finishing level construction
\* lowers a counter of a level
C4_CountersMonotoneButRenormalise ==
    [][~FinishesLevels => CountersNotLowered(sampler.levels, sampler.levels')]_vars

\* C4 witness: level construction has finished and merges went on after it
C4_Witness ==
    /\ pc[0] = "top"
    /\ enough_levels(sampler.levels)
    /\ \E k \in 1..Len(sampler.levels) :
          sampler.levels[k].tries > 0 /\ sampler.levels[k].visits > Reg

RECURSIVE SumDeltas(_, _, _, _, _)
SumDeltas(copies, snap, i, c, t) ==
    IF t \notin DOMAIN copies THEN 0
    ELSE (copies[t][i][c] - snap[i][c]) + SumDeltas(copies, snap, i, c, t + 1)

\* C5: the merge of phase C leaves every counter of every level at its
\* snapshot value plus the sum over the threads of their local deltas
C5_MergeLosesNothing ==
    [][(pc[0] = "phaseC" /\ pc'[0] = "book") =>
          /\ Len(sampler'.levels) = Len(snapshot)
          /\ \A i \in 1..Len(snapshot) : \A c \in LevelCounters :
                sampler'.levels[i][c] =
                    snapshot[i][c]
                    + SumDeltas(sampler.copies_of_levels, snapshot, i, c, 0)]_vars

\* C5 witness: after a merge, two threads had both counted tries on the
\* same level
C5_Witness ==
    /\ pc[0] = "book"
    /\ sampler.num_threads >= 2
    /\ \E i \in 1..Len(snapshot) :
          /\ \A t \in T : sampler.copies_of_levels[t][i].tries > snapshot[i].tries
          /\ sampler.levels[i].tries >= snapshot[i].tries + 2

Exiting(t) == pc[t] \in {"exit", "done"}

\* C6: without cancellation a thread exits only with max_num_saves > 0 and
\* count_saves = max_num_saves, every other thread is then released from the
\* same barrier towards its termination check, at it, or has exited, and no
\* burst runs once count_saves is a non-zero multiple of max_num_saves
C6_ExitTogether ==
    /\ \A t \in T :
          Exiting(t) =>
             /\ sampler.max_num_saves > 0
             /\ sampler.count_saves = sampler.max_num_saves
             /\ \A u \in T :
                   \/ pc[u] = "check"
                   \/ Exiting(u)
                   \/ pc[u] = "wait1" /\ barrier.generation # gen[u]
    /\ \A t \in T :
          pc[t] = "mcmc" => ~Terminate(sampler, FALSE)

\* C6 witness: two threads have both exited at count_saves = max_num_saves
C6_Witness ==
    /\ sampler.num_threads >= 2
    /\ sampler.max_num_saves = 2
    /\ \A t \in T : pc[t] = "done"

\* A thread waits at a barrier that a thread which has exited will never reach
Stuck(u) ==
    /\ pc[u] \in {"wait1", "wait2"}
    /\ barrier.generation = gen[u]
    /\ \E t \in T : Exiting(t)

\* C7: with cancellation no thread is ever left waiting at a barrier for a
\* thread that has exited
C7_NoThreadStuck == \A u \in T : ~Stuck(u)

\* C8: run() hands control back only with the flag set and every thread exited
C8_ReturnsAfterThreads ==
    pc_main \in {"thrown", "returned"} =>
        /\ pc_main = "thrown" => shouldThreadsStop
        /\ \A t \in T : pc[t] = "done"

\* What a later step depends on, by C9
Continuation(S) ==
    [particles |-> S.particles, log_likelihoods |-> S.log_likelihoods,
     level_assignments |-> S.level_assignments, levels |-> S.levels,
     all_above |-> S.all_above, rngs |-> S.rngs, above |-> S.above,
     count_saves |-> S.count_saves, count_mcmc_steps |-> S.count_mcmc_steps,
     count_mcmc_steps_since_save |-> S.count_mcmc_steps_since_save]

\* C9: after a restart from the checkpoint the run is, at every cycle
\* boundary, where the uninterrupted run is
C9_ResumeEquivalent ==
    (resumed /\ AtBoundary) => Continuation(sampler) = Continuation(ref)

\* C9 witness: a single-threaded run stopped at 1 save, restarted and at the
\* boundary after its second save
C9_Witness ==
    /\ resumed
    /\ pc[0] = "top"
    /\ sampler.num_threads = 1
    /\ sampler.count_saves = 2
    /\ sampler.count_mcmc_steps_since_save = 0

\* C10: right after read_checkpoint every counter, deletions included, and
\* all particles, likelihoods, level assignments, levels, all_above and
\* generators are as they were when the checkpoint was written
C10_RoundTrip ==
    (resumed /\ pc_main = "start") =>
        /\ Continuation(sampler) = Continuation(at_save)
        /\ sampler.deletions = at_save.deletions

\* C12: at every cycle boundary the whole sampler is what one scheduler
\* running the bursts of threads 0, 1, ... one after the other gets from the
\* same seed, whatever the interleaving of the bursts was
C12_ScheduleIndependent == AtBoundary => sampler = ref

\* C12 witness: two threads at the boundary after their second burst, both
\* having moved a particle in it, with a level created
C12_Witness ==
    /\ pc[0] = "top"
    /\ sampler.num_threads >= 2
    /\ sampler.count_mcmc_steps >= 4 * thread_steps
    /\ Len(sampler.levels) >= 2
    /\ \A t \in T : \E k \in 1..Len(snapshot) :
          sampler.copies_of_levels[t][k].accepts > snapshot[k].accepts

\* min and sum of level_assignments over all slots
MinLevel(S) ==
    CHOOSE m \in {S.level_assignments[i] : i \in Slots(S)} :
        \A i \in Slots(S) : m <= S.level_assignments[i]

RECURSIVE SumLevelsFrom(_, _)
SumLevelsFrom(S, i) ==
    IF i = S.num_threads * num_particles THEN 0
    ELSE S.level_assignments[i] + SumLevelsFrom(S, i + 1)

\* C15 as stated: after a kill pass the minimum level is not lower than
\* before, and the mean level (the sum, over the same slots) is strictly
\* higher whenever a slot was replaced
C15_MeanRaised ==
    pc_main = "killed" =>
        /\ MinLevel(sampler) >= MinLevel(at_book)
        /\ sampler.deletions > at_book.deletions =>
              SumLevelsFrom(sampler, 0) > SumLevelsFrom(at_book, 0)

\* C15, amended: after a kill pass the minimum level is not lower than
\* before, and every slot the pass changed holds the particle, the likelihood
\* and the level of a slot that the pass left as it was
C15_MinNotLowered ==
    pc_main = "killed" =>
        LET Slot(S, i) == <<S.particles[i], S.log_likelihoods[i], S.level_assignments[i]>>
        IN  /\ MinLevel(sampler) >= MinLevel(at_book)
            /\ \A i \in Slots(sampler) :
                  Slot(sampler, i) # Slot(at_book, i) =>
                      \E j \in Slots(sampler) :
                          /\ Slot(sampler, j) = Slot(at_book, j)
                          /\ Slot(sampler, i) = Slot(at_book, j)

\* A kill pass has replaced a slot and changed its level, with the particles
\* on different levels before the pass
C15_Witness ==
    /\ pc_main = "killed"
    /\ sampler.deletions > at_book.deletions
    /\ \E i, j \in Slots(at_book) :
          at_book.level_assignments[i] # at_book.level_assignments[j]
    /\ sampler.level_assignments # at_book.level_assignments

\* Thread 0 is in phase A (top) or in phase C (phaseC, book, save)
InPhaseA == pc[0] = "top"
InPhaseC == pc[0] \in {"phaseC", "book", "save"}

\* The fields only thread 0 writes
Shared(S) == <<S.levels, S.all_above, S.count_saves, S.count_mcmc_steps,
               S.count_mcmc_steps_since_save>>

\* C16: no thread is in its MCMC burst while thread 0 is in phase A or C, no
\* thread is at its termination check while thread 0 is in phase C, and
\* levels, all_above, count_saves, count_mcmc_steps and
\* count_mcmc_steps_since_save change only in a step of thread 0 in phase C
C16_PhaseExclusion ==
    [][/\ \A t \in T : pc'[t] = "mcmc" => ~InPhaseA' /\ ~InPhaseC'
       /\ \A t \in T : pc'[t] = "check" => ~InPhaseC'
       /\ Shared(sampler') # Shared(sampler) => InPhaseC /\ pc'[0] # pc[0]]_vars

\* After a first cycle, thread 1 is in its burst while thread 0 has finished
\* its own and waits at the second barrier
C16_Witness ==
    /\ sampler.num_threads >= 2
    /\ sampler.count_mcmc_steps > 0
    /\ pc[1] = "mcmc"
    /\ pc[0] \in {"bar2", "wait2"}

\* What thread t owns during a burst: its copy of levels, its above buffer,
\* its generator and the entries of its slots
OwnSlots(t) == start_index(t)..(start_index(t) + num_particles - 1)

Owned(S, t) ==
    <<S.copies_of_levels[t], S.above[t], S.rngs[t],
      [i \in OwnSlots(t) |-> <<S.particles[i], S.log_likelihoods[i], S.level_assignments[i]>>]>>

\* S with the owned part of thread t taken from R: what is left of S is what
\* thread t does not own
WithOwned(S, R, t) ==
    [S EXCEPT !.copies_of_levels[t] = R.copies_of_levels[t],
              !.above[t] = R.above[t],
              !.rngs[t] = R.rngs[t],
              !.particles = [i \in Slots(S) |-> IF i \in OwnSlots(t) THEN R.particles[i] ELSE @[i]],
              !.log_likelihoods = [i \in Slots(S) |-> IF i \in OwnSlots(t) THEN R.log_likelihoods[i] ELSE @[i]],
              !.level_assignments = [i \in Slots(S) |-> IF i \in OwnSlots(t) THEN R.level_assignments[i] ELSE @[i]]]

\* Another value of the shared levels: the levels still to be created are
\* there, as thread 0 would leave them after further cycles
LevelsCompleted(L) ==
    IF enough_levels(L) THEN L
    ELSE L \o [k \in 1..(max_num_levels - Len(L)) |-> Back(L)]

\* A burst step of thread t writes only what thread t owns
WritesOwn(t) == mcmc_step(sampler, t) = WithOwned(sampler, mcmc_step(sampler, t), t)

\* A burst step of thread t does not depend on the shared levels
ReadsOwnLevels(t) ==
    Owned(mcmc_step(sampler, t), t) =
        Owned(mcmc_step([sampler EXCEPT !.levels = LevelsCompleted(@)], t), t)

\* C17: a burst step of thread t writes only copies_of_levels[t], above[t],
\* rngs[t] and the entries of its own slots, and takes its level data from
\* copies_of_levels[t] alone, so that its outcome is the same whatever the
\* shared levels hold
C17_BurstConfined ==
    \A t \in T : pc[t] = "mcmc" => WritesOwn(t) /\ ReadsOwnLevels(t)

NoneAbove(S) == S.all_above = <<>> /\ \A t \in Threads(S) : S.above[t] = <<>>

\* C18: levels never has more than max_num_levels entries; once
\* enough_levels(levels) holds it holds after every later step, no level is
\* created any more, and all_above and every above[t] are empty from then on
C18_LevelsFinal ==
    [][/\ Len(sampler'.levels) <= max_num_levels
       /\ enough_levels(sampler'.levels) => NoneAbove(sampler')
       /\ enough_levels(sampler.levels) =>
             /\ enough_levels(sampler'.levels)
             /\ Len(sampler'.levels) = Len(sampler.levels)]_vars

\* A whole cycle has run with all the levels there, and a particle lies above
\* the last threshold
C18_Witness ==
    /\ enough_levels(sampler.levels)
    /\ enough_levels(snapshot)
    /\ pc[0] = "top"
    /\ \E i \in Slots(sampler) :
          Less(Back(sampler.levels).log_likelihood, sampler.log_likelihoods[i])

\* The thresholds of a vector of levels, in order
Thresholds(L) == [k \in 1..Len(L) |-> L[k].log_likelihood]

IsPrefix(a, b) == Len(a) <= Len(b) /\ \A k \in 1..Len(a) : a[k] = b[k]

\* C19: every step keeps the thresholds of levels as a prefix of the new
\* ones (no level removed, no threshold changed), appends at most one level
\* and only in do_bookkeeping, and leaves the thresholds of every
\* copies_of_levels[t] a prefix of those of levels
C19_AppendOnly ==
    [][/\ IsPrefix(Thresholds(sampler.levels), Thresholds(sampler'.levels))
       /\ Len(sampler'.levels) <= Len(sampler.levels) + 1
       /\ Len(sampler'.levels) # Len(sampler.levels) =>
             pc[0] = "book" /\ pc'[0] # "book"
       /\ \A t \in T : IsPrefix(Thresholds(sampler'.copies_of_levels[t]),
                                 Thresholds(sampler'.levels))]_vars

\* Two levels have been created, the second since the last snapshot
C19_Witness ==
    /\ Len(sampler.levels) >= 3
    /\ pc[0] = "top"
    /\ \A t \in T : Len(sampler.copies_of_levels[t]) < Len(sampler.levels)

\* read_checkpoint's "max num saves already achieved"
Achieved(S) == S.max_num_saves # 0 /\ S.count_saves >= S.max_num_saves

\* C20: a process resumed with max_num_saves # 0 and count_saves >=
\* max_num_saves takes no MCMC step and makes no save: no thread enters its
\* burst, and count_mcmc_steps and count_saves stay
C20_AchievedRunsNothing ==
    [][(resumed /\ Achieved(sampler) /\ Achieved(sampler')) =>
          /\ \A t \in T : pc'[t] # "mcmc"
          /\ sampler'.count_mcmc_steps = sampler.count_mcmc_steps
          /\ sampler'.count_saves = sampler.count_saves]_vars

\* Resumed with a count_saves above max_num_saves and not a multiple of it
C20_Witness ==
    /\ resumed
    /\ pc_main = "start"
    /\ Achieved(sampler)
    /\ sampler.count_saves % sampler.max_num_saves # 0

\* Every level assignment indexes the shared levels
InLevels(S) == \A i \in Slots(S) : S.level_assignments[i] < Len(S.levels)

\* Every level assignment indexes the copy of the thread owning the slot
InCopies(S) ==
    \A t \in Threads(S) : \A i \in OwnSlots(t) :
        S.level_assignments[i] < Len(S.copies_of_levels[t])

\* The proposal of the next burst step of every thread in its burst is in
\* 0..len(_levels)-1, and with it the argument of log_push
ProposalsInRange ==
    \A t \in T : pc[t] = "mcmc" =>
        LET at == AtLevelUpdate(sampler, t)
            p == LevelProposal(at.S, t, at.which)
        IN  /\ p.proposal >= 0
            /\ p.proposal < Len(at.S.copies_of_levels[t])
            /\ p.proposal < Len(at.S.levels)

\* C21 as stated: in every state every level assignment is smaller than
\* len(levels) and than the length of the owning thread's copy, and every
\* wrapped proposal is in range
C21_IndicesInRange == InLevels(sampler) /\ InCopies(sampler) /\ ProposalsInRange

\* C21, amended: every level assignment is smaller than len(levels) in every
\* state, and smaller than the length of the owning thread's copy from phase
\* A of the cycle on; every wrapped proposal is in range
C21_IndicesInRangeAfterPhaseA ==
    /\ InLevels(sampler)
    /\ pc[0] \notin {"idle", "top"} => InCopies(sampler)
    /\ ProposalsInRange

\* In a resumed run with a particle above level 0, a thread in its burst
\* draws a proposal outside the range, which the modulo wraps
C21_Witness ==
    /\ resumed
    /\ \E i \in Slots(sampler) : sampler.level_assignments[i] >= 1
    /\ \E t \in T :
          /\ pc[t] = "mcmc"
          /\ LET at == AtLevelUpdate(sampler, t)
                 p == LevelProposal(at.S, t, at.which)
             IN  p.raw # p.proposal

\* C22: at the end of every phase C every element of all_above is strictly
\* greater than the threshold of the last level
C22_AboveLastLevel ==
    pc[0] = "top" =>
        \A k \in 1..Len(sampler.all_above) :
            Less(Back(sampler.levels).log_likelihood, sampler.all_above[k])

\* What a slot holds
SlotOf(S, i) == <<S.particles[i], S.log_likelihoods[i], S.level_assignments[i]>>

\* After a pass: the good slots are as before, every bad slot holds what a
\* good slot held, and with every slot bad nothing has changed
KillFrame ==
    pc_main = "killed" =>
        /\ \A i \in Slots(sampler) : pass.good[i] => SlotOf(sampler, i) = SlotOf(at_book, i)
        /\ \A i \in Slots(sampler) :
              (~pass.good[i] /\ \E j \in Slots(sampler) : pass.good[j]) =>
                  \E j \in Slots(sampler) :
                      pass.good[j] /\ SlotOf(sampler, i) = SlotOf(at_book, j)
        /\ (\A i \in Slots(sampler) : ~pass.good[i]) =>
              /\ \A i \in Slots(sampler) : SlotOf(sampler, i) = SlotOf(at_book, i)
              /\ sampler.deletions = at_book.deletions

\* C23: a kill pass leaves the slots marked good unchanged, gives every bad
\* slot the model, likelihood and level of a slot marked good in the pass,
\* changes nothing and counts no deletion when every slot is bad, and with a
\* good slot its rejection loop ends under fair draws
C23_KillFrameAndTermination ==
    /\ []KillFrame
    /\ (pc_main = "choose") ~> (pc_main = "killed")

\* A pass has ended in which a bad slot took the contents of a good slot on
\* another level
C23_Witness ==
    /\ pc_main = "killed"
    /\ sampler.deletions > at_book.deletions
    /\ \E i \in Slots(sampler) :
          /\ ~pass.good[i]
          /\ sampler.level_assignments[i] # at_book.level_assignments[i]

StrictlyIncreasing(f) == \A k \in 1..(Len(f) - 1) : Less(f[k], f[k + 1])

\* C24: over a run and its continuations after a resume, the likelihoods in
\* best_likelihood_file are strictly increasing, and an entry is appended only
\* by a save, as the greatest particle likelihood at that save
C24_BestOnlyImproves ==
    [][/\ StrictlyIncreasing(best_likelihood_file')
       /\ best_likelihood_file' # best_likelihood_file =>
             /\ sampler'.count_saves = sampler.count_saves + 1
             /\ best_likelihood_file' =
                   Append(best_likelihood_file,
                          sampler'.log_likelihoods[Best(sampler')])]_vars

\* A resumed run has appended an entry after those of the run before it
C24_Witness ==
    /\ resumed
    /\ Len(best_likelihood_file) >= 2
    /\ sampler.best_ever_log_likelihood = Back(best_likelihood_file)
    /\ pc[0] = "top"

\* C14: a bookkeeping step adds exactly 1 to count_saves and resets
\* count_mcmc_steps_since_save to 0 if count_mcmc_steps_since_save >=
\* save_interval held, and leaves both unchanged otherwise; no other step
\* changes count_saves, so count_saves counts the save events, at most one per
\* cycle
C14_OneSavePerEvent ==
    [][/\ sampler'.count_saves # sampler.count_saves => pc[0] = "book"
       /\ (pc[0] = "book" /\ pc'[0] = "top") =>
             IF sampler.count_mcmc_steps_since_save >= save_interval
             THEN /\ sampler'.count_saves = sampler.count_saves + 1
                  /\ sampler'.count_mcmc_steps_since_save = 0
             ELSE /\ sampler'.count_saves = sampler.count_saves
                  /\ sampler'.count_mcmc_steps_since_save =
                        sampler.count_mcmc_steps_since_save]_vars

\* Two save events have been counted, the second one just now
C14_Witness ==
    /\ sampler.count_saves = 2
    /\ sampler.count_mcmc_steps_since_save = 0
    /\ sampler.count_mcmc_steps >= 2 * save_interval
    /\ pc[0] = "top"

\* C13: a call of increase_max_num_saves fails if and only if the sum wraps
\* around; a failed call changes nothing, a successful one adds increment
C13_FailsIffWraps ==
    [][(pc_main = "start" /\ pc_main' \in {"start", "overflow"}) =>
          LET wraps == sampler.max_num_saves + increment' >= UIntMod
              failed == pc_main' = "overflow"
          IN  /\ failed <=> wraps
              /\ failed => sampler' = sampler
              /\ ~failed => sampler'.max_num_saves =
                                sampler.max_num_saves + increment']_vars

\* The length a complete checkpoint with the counts found in t has; a count
\* that is missing from t reads as 0
Tok(t, i) == IF i <= Len(t) THEN t[i] ELSE 0

CheckpointLength(t) ==
    LET p1 == NumOptionTokens + 8
        p2 == p1 + 1 + Tok(t, p1 + 1)
        p3 == p2 + 1 + 2 * Tok(t, p2 + 1)
        p4 == p3 + 1 + Tok(t, p3 + 1)
        p5 == p4 + 1 + 8 * Tok(t, p4 + 1)
        p6 == p5 + 1 + 2 * Tok(t, p5 + 1)
    IN  p6 + 1 + Tok(t, p6 + 1)

\* C11: at every moment, also after a crash or a failed write, the
\* checkpoint file is absent or holds one complete checkpoint
C11_CheckpointAtomic ==
    checkpoint_file = <<>> \/ Len(checkpoint_file) = CheckpointLength(checkpoint_file)

\* A complete checkpoint has been installed and the run went on to save again
C11_Witness ==
    /\ checkpoint_file # <<>>
    /\ Len(checkpoint_file) = CheckpointLength(checkpoint_file)
    /\ io.at = "rename"

====
